---- MODULE Spec2Model ----
(* Embedding cache pipeline of helpers/caching/vae.py (class VAECache):     *)
(* cache-key derivation, backlog discovery, splitting between processes and  *)
(* the batched encode/write loop of process_directory.                       *)
EXTENDS Naturals, Integers, Sequences, FiniteSets, TLC

(* ------------------------------ bounds ---------------------------------- *)
MaxFiles == 3      \* largest number of files in the data directory
MaxBatch == 3      \* largest write_batch_size explored
MaxProcs == 2      \* largest accelerator.num_processes explored
MaxLoad  == 4      \* num_processes * number of files is at most this
MaxVal   == 2      \* distinct noise draws latent_dist.sample() may make
MaxCalls == 2      \* successive pipeline runs of a single process
MaxLen   == 4      \* longest path string given to _generate_filename

(* --------------------------- paths and names ----------------------------- *)
cache_dir == "vae_cache"
DataDir   == "data"

PtExt   == <<"p", "t">>
PngExt  == <<"p", "n", "g">>
JpgExt  == <<"j", "p", "g">>
JpegExt == <<"j", "p", "e", "g">>
UpPngExt == <<"P", "N", "G">>

Path(d, s, e) == [dir |-> d, stem |-> s, ext |-> e]

\* os.path.join(subdir, file)
join(subdir, file) == Path(subdir, file.stem, file.ext)

\* os.path.basename(filepath)
basename(filepath) == Path("", filepath.stem, filepath.ext)

\* os.path.splitext(p)[0]: the path without its last extension
splitext0(p) == [dir |-> p.dir, stem |-> p.stem]

\* fnmatch of a file name against "*.[jJpP][pPnN][gG]"
MatchesImagePattern(file) ==
    /\ Len(file.ext) = 3
    /\ file.ext[1] \in {"j", "J", "p", "P"}
    /\ file.ext[2] \in {"p", "P", "n", "N"}
    /\ file.ext[3] \in {"g", "G"}

\* fnmatch of a file name against "*.pt"
MatchesPtPattern(file) == file.ext = PtExt

\* file.endswith((".png", ".jpg", ".jpeg"))
EndsWithImageSuffix(file) == file.ext \in {PngExt, JpgExt, JpegExt}

\* VAECache._generate_filename: (full_filename, base_filename)
_generate_filename(filepath) ==
    LET base_filename == Path("", splitext0(basename(filepath)).stem, PtExt)
        full_filename == join(cache_dir, base_filename)
    IN  <<full_filename, base_filename>>

(* Path strings as sequences of characters, for _generate_filename itself.  *)
Chars == {"a", ".", "/"}
PathStrings == UNION { [1..n -> Chars] : n \in 1..MaxLen }
cache_dir_str == <<"c">>
PtSuffix == <<".", "p", "t">>
NotCalled == << <<>>, <<>> >>

\* str.rfind(c) + 1: position of the last c in s, 0 if there is none
rfind(s, c) ==
    LET I == { i \in 1..Len(s) : s[i] = c }
    IN  IF I = {} THEN 0 ELSE CHOOSE i \in I : \A j \in I : j <= i

\* posixpath.basename(p)
os_path_basename(p) == SubSeq(p, rfind(p, "/") + 1, Len(p))

\* a splitext that cuts at the last dot of the name, leading dots included
os_path_splitext_at_any_dot(p) ==
    LET sep == rfind(p, "/")
        dot == rfind(p, ".")
    IN  IF dot > sep
        THEN << SubSeq(p, 1, dot - 1), SubSeq(p, dot, Len(p)) >>
        ELSE << p, <<>> >>

\* posixpath.splitext(p): the last dot of the last component starts the
\* extension unless only dots precede it in that component
os_path_splitext(p) ==
    LET sep == rfind(p, "/")
        dot == rfind(p, ".")
    IN  IF dot > sep /\ \E i \in (sep + 1)..(dot - 1) : p[i] # "."
        THEN << SubSeq(p, 1, dot - 1), SubSeq(p, dot, Len(p)) >>
        ELSE << p, <<>> >>

\* posixpath.join(a, b)
os_path_join(a, b) ==
    IF b # <<>> /\ b[1] = "/" THEN b
    ELSE IF a = <<>> \/ a[Len(a)] = "/" THEN a \o b
    ELSE a \o <<"/">> \o b

\* VAECache._generate_filename on a path string
generate_filename(filepath) ==
    LET base_filename == os_path_splitext(os_path_basename(filepath))[1] \o PtSuffix
        full_filename == os_path_join(cache_dir_str, base_filename)
    IN  << full_filename, base_filename >>

(* The files a data directory may hold.  The stem also fixes what reading   *)
(* and preparing the image does (see DecodeOutcome).                         *)
AllNames ==
    { Path("", "a", PngExt), Path("", "a", JpgExt), Path("", "b", UpPngExt),
      Path("", "c", JpgExt), Path("", "x", PngExt), Path("", "y", JpgExt),
      Path("", "z", PngExt) }

\* a name the suffix test of discover_unprocessed_files accepts and the
\* listing pattern does not match
JpegName == Path("", "n", JpegExt)

Stems == { n.stem : n \in AllNames }
CacheKeys == { _generate_filename(n)[1] : n \in AllNames \cup {JpegName} }

\* a stored embedding: the noise draw it was sampled with and the image it
\* was computed from; NoEntry where nothing is stored
NoEntry == [val |-> 0, src |-> Path("", "", <<>>)]

\* read_image / prepare_image / transform on the file with this path
DecodeOutcome(filepath) ==
    CASE filepath.stem = "x" -> "OSError"
      [] filepath.stem = "y" -> "RuntimeError"
      [] filepath.stem = "z" -> "ValueError"
      [] OTHER -> "ok"

\* an except clause that forgets RuntimeError
HandledErrors_OSErrorOnly == {"OSError"}

\* except (OSError, RuntimeError)
HandledErrors == {"OSError", "RuntimeError"}

(* ------------------------------- state ----------------------------------- *)
VARIABLES
    source,                   \* names of the files in the data directory
    cache,                    \* cache key -> stored embedding, or NoEntry
    write_batch_size,         \* self.write_batch_size
    delete_problematic_images,\* self.delete_problematic_images
    list_flat,                \* backend lists files with subdir "" (else the root)
    nproc,                    \* accelerator.num_processes
    pc,                       \* per process: position in the pipeline
    local_unprocessed_files,  \* self.local_unprocessed_files (= files_to_process)
    idx,                      \* position of the for loop in files_to_process
    current_batch_filepaths,
    batch_pixel_values,       \* tensors, each named by the file it was decoded from
    full_filenames,           \* result of encode_image_batch awaiting write_batch
    batch_latents,
    err,                      \* exception that left process_directory, or "none"
    \* history
    run,                      \* per process: number of its current run
    te_calls,                 \* per process: vae.encode calls in the current run
    flush_sizes,              \* per process: sizes of the write_batch calls of the run
    failed,                   \* per process: items handled by the except branch
    encoded,                  \* per process: items passed to vae.encode in the run
    first_stored,             \* cache key -> embedding first stored there, or NoEntry
    cache_at_split,           \* per process: cache when its current run began
    discovered,               \* last result of a discover_unprocessed_files call
    prev_run,                 \* per process: whether its previous run was killed
                              \* and, if so, the items that run had decoded
    resolved                  \* two path strings and what _generate_filename
                              \* returned for each, NotCalled before the call

vars == << source, cache, write_batch_size, delete_problematic_images, list_flat,
           nproc, pc, local_unprocessed_files, idx, current_batch_filepaths,
           batch_pixel_values, full_filenames, batch_latents, err, run,
           te_calls, flush_sizes, failed, encoded, first_stored, cache_at_split,
           discovered, prev_run, resolved >>

config == << write_batch_size, delete_problematic_images, list_flat, nproc >>
batch_state == << current_batch_filepaths, batch_pixel_values >>
pending == << full_filenames, batch_latents >>

Procs == 1..MaxProcs
Active == 1..nproc

(* --------------------------- storage backend ----------------------------- *)
\* data_backend.exists(path)
exists(path) == path \in CacheKeys /\ cache[path] # NoEntry

\* names of the files stored under a root
FilesUnder(root) ==
    IF root = DataDir THEN source
    ELSE IF root = cache_dir
         THEN { basename(k) : k \in { c \in CacheKeys : cache[c] # NoEntry } }
         ELSE {}

\* data_backend.list_files: the (subdir, files) groups, here at most one
list_files(root, image_pattern) ==
    LET files == { f \in FilesUnder(root) :
                     IF image_pattern THEN MatchesImagePattern(f)
                                      ELSE MatchesPtPattern(f) }
        subdir == IF list_flat THEN "" ELSE root
    IN  IF files = {} THEN {} ELSE { <<subdir, files>> }

\* data_backend.write_batch(keys, values): the pairs are stored in order
RECURSIVE write_batch(_, _, _)
write_batch(c, keys, values) ==
    IF keys = <<>> \/ values = <<>> THEN c
    ELSE write_batch([c EXCEPT ![Head(keys)] =
                          [val |-> Head(values).val, src |-> Head(values).src]],
                     Tail(keys), Tail(values))

RECURSIVE NoteFirst(_, _, _)
NoteFirst(fs, keys, values) ==
    IF keys = <<>> \/ values = <<>> THEN fs
    ELSE NoteFirst(IF fs[Head(keys)] = NoEntry
                   THEN [fs EXCEPT ![Head(keys)] =
                           [val |-> Head(values).val, src |-> Head(values).src]]
                   ELSE fs,
                   Tail(keys), Tail(values))

(* ------------------------------ helpers ---------------------------------- *)
Range(s) == { s[i] : i \in 1..Len(s) }

\* all orders of a list: what random.shuffle may leave
Shuffles(s) ==
    LET n == Len(s)
        perms == { p \in [1..n -> 1..n] : \A i, j \in 1..n : i # j => p[i] # p[j] }
    IN  { [i \in 1..n |-> s[p[i]]] : p \in perms }

\* list(a_set): the elements in some order
Orders(S) ==
    { q \in [1..Cardinality(S) -> S] :
        \A i, j \in 1..Cardinality(S) : i # j => q[i] # q[j] }

Min(a, b) == IF a < b THEN a ELSE b

\* VAECache.discover_unprocessed_files(directory), as a set
discover_unprocessed_files(directory) ==
    LET all_files == UNION { { join(g[1], file) : file \in
                                 { f \in g[2] : EndsWithImageSuffix(f) } }
                             : g \in list_files(directory, TRUE) }
        processed_files == { _generate_filename(file) : file \in all_files }
    IN  { file \in all_files : _generate_filename(file) \notin processed_files }

\* accelerator.split_between_processes(inputs) for process index p (from 0)
split_between_processes(inputs, p) ==
    LET n == Len(inputs)
        per == n \div nproc
        extras == n % nproc
        start == p * per + Min(p, extras)
        end == start + per + (IF p < extras THEN 1 ELSE 0)
    IN  SubSeq(inputs, start + 1, end)

\* an encode_image_batch that pairs the rows it has with the first paths
\* it was given instead of failing on the paths beyond the rows
encode_image_batch_truncating(latents, filepaths) ==
    LET n == IF Len(filepaths) < Len(latents) THEN Len(filepaths) ELSE Len(latents)
    IN  [ error |-> "none",
          names   |-> [i \in 1..n |-> _generate_filename(filepaths[i])[1]],
          latents |-> [i \in 1..n |->
                         LET full_filename == _generate_filename(filepaths[i])[1]
                         IN  IF full_filename \in CacheKeys /\ cache[full_filename] # NoEntry
                             THEN [val |-> cache[full_filename].val,
                                   src |-> cache[full_filename].src,
                                   loaded |-> TRUE]
                             ELSE latents[i]] ]

\* VAECache.encode_image_batch after vae.encode gave latents:
\* the exception it raises ("none" if it returns), full_filenames, latents_list.
\* latents has one row per stacked tensor; latents[i] with i beyond the rows
\* is an IndexError, in the assignment as well as in the read.
encode_image_batch(latents, filepaths) ==
    IF Len(filepaths) > Len(latents)
    THEN [ error |-> "IndexError", names |-> <<>>, latents |-> <<>> ]
    ELSE [ error |-> "none",
           names   |-> [i \in 1..Len(filepaths) |->
                          _generate_filename(filepaths[i])[1]],
           latents |-> [i \in 1..Len(filepaths) |->
                          LET full_filename == _generate_filename(filepaths[i])[1]
                          IN  IF exists(full_filename)
                              THEN [val |-> cache[full_filename].val,
                                    src |-> cache[full_filename].src,
                                    loaded |-> TRUE]
                              ELSE latents[i]] ]

\* what vae.encode(...).latent_dist.sample() may return for a batch: row i
\* is computed from tensor i and from the noise drawn by this call
Samples(pixel_values_batch) ==
    { [i \in 1..Len(pixel_values_batch) |->
         [val |-> v, src |-> pixel_values_batch[i], loaded |-> FALSE]]
      : v \in 1..MaxVal }

(* ------------------------------- Init ------------------------------------ *)
Init ==
    /\ source \in { S \in SUBSET AllNames : Cardinality(S) <= MaxFiles }
    /\ cache = [k \in CacheKeys |-> NoEntry]
    \* batch sizes above the number of files all behave alike
    /\ write_batch_size \in 1..MaxBatch
    /\ write_batch_size <= Cardinality(source) + 1
    \* the flag is read in the except branch only
    /\ delete_problematic_images \in BOOLEAN
    /\ delete_problematic_images
         => \E n \in source : DecodeOutcome(n) \in HandledErrors
    /\ list_flat \in BOOLEAN
    /\ nproc \in 1..MaxProcs
    /\ nproc * Cardinality(source) <= MaxLoad
    /\ pc = [w \in Procs |-> "new"]
    /\ local_unprocessed_files = [w \in Procs |-> <<>>]
    /\ idx = [w \in Procs |-> 0]
    /\ current_batch_filepaths = [w \in Procs |-> <<>>]
    /\ batch_pixel_values = [w \in Procs |-> <<>>]
    /\ full_filenames = [w \in Procs |-> <<>>]
    /\ batch_latents = [w \in Procs |-> <<>>]
    /\ err = [w \in Procs |-> "none"]
    /\ run = [w \in Procs |-> 0]
    /\ te_calls = [w \in Procs |-> 0]
    /\ flush_sizes = [w \in Procs |-> <<>>]
    /\ failed = [w \in Procs |-> {}]
    /\ encoded = [w \in Procs |-> {}]
    /\ first_stored = [k \in CacheKeys |-> NoEntry]
    /\ cache_at_split = [w \in Procs |-> cache]
    /\ discovered = [dir |-> "", result |-> {}]
    /\ prev_run = [w \in Procs |-> [killed |-> FALSE, decoded |-> {}]]
    /\ resolved = [p |-> <<>>, q |-> <<>>, rp |-> NotCalled, rq |-> NotCalled]

(* ------------------------------ actions ---------------------------------- *)
\* VAECache.split_cache_between_processes, first step of a pipeline run
split_cache(w) ==
    /\ w \in Active
    /\ pc[w] \in {"new", "done", "error", "killed"}
    /\ run[w] < MaxCalls
    /\ nproc = 1 \/ run[w] = 0
    /\ \E all_unprocessed_files \in Orders(discover_unprocessed_files(cache_dir)) :
         local_unprocessed_files' =
            [local_unprocessed_files EXCEPT
               ![w] = split_between_processes(all_unprocessed_files, w - 1)]
    /\ pc' = [pc EXCEPT ![w] = "ready"]
    /\ err' = [err EXCEPT ![w] = "none"]
    /\ run' = [run EXCEPT ![w] = @ + 1]
    /\ cache_at_split' = [cache_at_split EXCEPT ![w] = cache]
    /\ te_calls' = [te_calls EXCEPT ![w] = 0]
    /\ flush_sizes' = [flush_sizes EXCEPT ![w] = <<>>]
    /\ failed' = [failed EXCEPT ![w] = {}]
    /\ encoded' = [encoded EXCEPT ![w] = {}]
    /\ prev_run' = [prev_run EXCEPT ![w] =
                      IF pc[w] = "killed"
                      THEN [killed |-> TRUE,
                            decoded |-> encoded[w] \cup Range(batch_pixel_values[w])]
                      ELSE [killed |-> FALSE, decoded |-> {}]]
    /\ UNCHANGED << source, cache, config, idx, batch_state, pending,
                    first_stored, discovered,
                    resolved >>

\* the set process_directory builds from the listing of the cache directory
existing_pt_files ==
    UNION { { splitext0(IF g[1] # "" THEN join(g[1], file) ELSE file)
              : file \in g[2] } : g \in list_files(cache_dir, FALSE) }

\* process_directory up to the shuffle and the empty batch lists
scan_directory(w) ==
    /\ w \in Active
    /\ pc[w] = "ready"
    /\ LET found == UNION { { join(g[1], file) : file \in
                                { f \in g[2] : splitext0(f) \notin existing_pt_files } }
                            : g \in list_files(DataDir, TRUE) }
           \* the order of the listing does not matter, the shuffle follows
           appended == CHOOSE q \in Orders(found) : TRUE
       IN  \E files_to_process \in Shuffles(local_unprocessed_files[w] \o appended) :
              local_unprocessed_files' =
                 [local_unprocessed_files EXCEPT ![w] = files_to_process]
    /\ idx' = [idx EXCEPT ![w] = 1]
    /\ current_batch_filepaths' = [current_batch_filepaths EXCEPT ![w] = <<>>]
    /\ batch_pixel_values' = [batch_pixel_values EXCEPT ![w] = <<>>]
    /\ pc' = [pc EXCEPT ![w] = "loop"]
    /\ UNCHANGED << source, cache, config, pending, err, run, te_calls,
                    flush_sizes, failed, encoded, first_stored, cache_at_split,
                    discovered, prev_run, resolved >>

\* one pass of the for loop: the cache entry exists, the item is skipped
loop_skip(w) ==
    /\ w \in Active
    /\ pc[w] = "loop"
    /\ idx[w] <= Len(local_unprocessed_files[w])
    /\ exists(_generate_filename(local_unprocessed_files[w][idx[w]])[1])
    /\ idx' = [idx EXCEPT ![w] = @ + 1]
    /\ UNCHANGED << source, cache, config, pc, local_unprocessed_files, batch_state,
                    pending, err, run, te_calls, flush_sizes, failed,
                    encoded, first_stored, cache_at_split, discovered, prev_run, resolved >>

\* what the try block does for a path: a file that is gone cannot be read
ReadOutcome(filepath) ==
    IF basename(filepath) \in source THEN DecodeOutcome(filepath) ELSE "OSError"

\* a loop that decodes the image without looking for its cache entry
loop_decode_unchecked(w) ==
    /\ w \in Active
    /\ pc[w] = "loop"
    /\ idx[w] <= Len(local_unprocessed_files[w])
    /\ LET filepath == local_unprocessed_files[w][idx[w]]
       IN  /\ ReadOutcome(filepath) = "ok"
           /\ current_batch_filepaths' =
                 [current_batch_filepaths EXCEPT ![w] = Append(@, filepath)]
           /\ batch_pixel_values' =
                 [batch_pixel_values EXCEPT ![w] = Append(@, filepath)]
    /\ IF Len(batch_pixel_values'[w]) = write_batch_size
       THEN pc' = [pc EXCEPT ![w] = "encode"] /\ idx' = idx
       ELSE pc' = pc /\ idx' = [idx EXCEPT ![w] = @ + 1]
    /\ UNCHANGED << source, cache, config, local_unprocessed_files, pending, err,
                    run, te_calls, flush_sizes, failed, encoded,
                    first_stored, cache_at_split, discovered, prev_run, resolved >>

\* one pass of the for loop: the image is decoded and joins the batch
loop_decode(w) ==
    /\ w \in Active
    /\ pc[w] = "loop"
    /\ idx[w] <= Len(local_unprocessed_files[w])
    /\ LET filepath == local_unprocessed_files[w][idx[w]]
       IN  /\ ~exists(_generate_filename(filepath)[1])
           /\ ReadOutcome(filepath) = "ok"
           /\ current_batch_filepaths' =
                 [current_batch_filepaths EXCEPT ![w] = Append(@, filepath)]
           /\ batch_pixel_values' =
                 [batch_pixel_values EXCEPT ![w] = Append(@, filepath)]
    /\ IF Len(batch_pixel_values'[w]) = write_batch_size
       THEN pc' = [pc EXCEPT ![w] = "encode"] /\ idx' = idx
       ELSE pc' = pc /\ idx' = [idx EXCEPT ![w] = @ + 1]
    /\ UNCHANGED << source, cache, config, local_unprocessed_files, pending, err,
                    run, te_calls, flush_sizes, failed, encoded,
                    first_stored, cache_at_split, discovered, prev_run, resolved >>

\* an except branch that deletes the file whatever the flag says
loop_except_always_deletes(w) ==
    /\ w \in Active
    /\ pc[w] = "loop"
    /\ idx[w] <= Len(local_unprocessed_files[w])
    /\ LET filepath == local_unprocessed_files[w][idx[w]]
       IN  /\ ~exists(_generate_filename(filepath)[1])
           /\ ReadOutcome(filepath) \in HandledErrors
           /\ failed' = [failed EXCEPT ![w] = @ \cup {filepath}]
           /\ source' = source \ {basename(filepath)}
    /\ idx' = [idx EXCEPT ![w] = @ + 1]
    /\ UNCHANGED << cache, config, pc, local_unprocessed_files, batch_state, pending,
                    err, run, te_calls, flush_sizes, encoded, first_stored,
                    cache_at_split, discovered, prev_run, resolved >>

\* one pass of the for loop: except (OSError, RuntimeError)
loop_except(w) ==
    /\ w \in Active
    /\ pc[w] = "loop"
    /\ idx[w] <= Len(local_unprocessed_files[w])
    /\ LET filepath == local_unprocessed_files[w][idx[w]]
       IN  /\ ~exists(_generate_filename(filepath)[1])
           /\ ReadOutcome(filepath) \in HandledErrors
           /\ failed' = [failed EXCEPT ![w] = @ \cup {filepath}]
           /\ source' = IF delete_problematic_images
                        THEN source \ {basename(filepath)} ELSE source
    /\ idx' = [idx EXCEPT ![w] = @ + 1]
    /\ UNCHANGED << cache, config, pc, local_unprocessed_files, batch_state, pending,
                    err, run, te_calls, flush_sizes, encoded, first_stored,
                    cache_at_split, discovered, prev_run, resolved >>

\* one pass of the for loop: an exception the except clause does not name
loop_raise(w) ==
    /\ w \in Active
    /\ pc[w] = "loop"
    /\ idx[w] <= Len(local_unprocessed_files[w])
    /\ LET filepath == local_unprocessed_files[w][idx[w]]
       IN  /\ ~exists(_generate_filename(filepath)[1])
           /\ ReadOutcome(filepath) \notin HandledErrors \cup {"ok"}
           /\ err' = [err EXCEPT ![w] = ReadOutcome(filepath)]
    /\ pc' = [pc EXCEPT ![w] = "error"]
    /\ UNCHANGED << source, cache, config, local_unprocessed_files, idx, batch_state,
                    pending, run, te_calls, flush_sizes, failed, encoded,
                    first_stored, cache_at_split, discovered, prev_run, resolved >>

\* the batch is full: encode_image_batch(batch_pixel_values, current_batch_filepaths)
flush_encode(w) ==
    /\ w \in Active
    /\ pc[w] = "encode"
    /\ \E latents \in Samples(batch_pixel_values[w]) :
         LET r == encode_image_batch(latents, current_batch_filepaths[w])
         IN  /\ full_filenames' = [full_filenames EXCEPT ![w] = r.names]
             /\ batch_latents' = [batch_latents EXCEPT ![w] = r.latents]
             /\ pc' = [pc EXCEPT ![w] = IF r.error = "none" THEN "write" ELSE "error"]
             /\ err' = [err EXCEPT ![w] = r.error]
    /\ te_calls' = [te_calls EXCEPT ![w] = @ + 1]
    /\ encoded' = [encoded EXCEPT ![w] = @ \cup Range(batch_pixel_values[w])]
    /\ UNCHANGED << source, cache, config, local_unprocessed_files, idx, batch_state,
                    run, flush_sizes, failed, first_stored, cache_at_split,
                    discovered, prev_run, resolved >>

\* a flush that clears batch_pixel_values and forgets current_batch_filepaths
flush_write_keeps_paths(w) ==
    /\ w \in Active
    /\ pc[w] = "write"
    /\ cache' = write_batch(cache, full_filenames[w], batch_latents[w])
    /\ first_stored' = NoteFirst(first_stored, full_filenames[w], batch_latents[w])
    /\ flush_sizes' = [flush_sizes EXCEPT ![w] = Append(@, Len(full_filenames[w]))]
    /\ batch_pixel_values' = [batch_pixel_values EXCEPT ![w] = <<>>]
    /\ full_filenames' = [full_filenames EXCEPT ![w] = <<>>]
    /\ batch_latents' = [batch_latents EXCEPT ![w] = <<>>]
    /\ idx' = [idx EXCEPT ![w] = @ + 1]
    /\ pc' = [pc EXCEPT ![w] = "loop"]
    /\ UNCHANGED << source, config, local_unprocessed_files, current_batch_filepaths,
                    err, run, te_calls, failed, encoded, cache_at_split, discovered,
                    prev_run, resolved >>

\* the batch is full: write_batch, then both lists are cleared
flush_write(w) ==
    /\ w \in Active
    /\ pc[w] = "write"
    /\ cache' = write_batch(cache, full_filenames[w], batch_latents[w])
    /\ first_stored' = NoteFirst(first_stored, full_filenames[w], batch_latents[w])
    /\ flush_sizes' = [flush_sizes EXCEPT ![w] = Append(@, Len(full_filenames[w]))]
    /\ current_batch_filepaths' = [current_batch_filepaths EXCEPT ![w] = <<>>]
    /\ batch_pixel_values' = [batch_pixel_values EXCEPT ![w] = <<>>]
    /\ full_filenames' = [full_filenames EXCEPT ![w] = <<>>]
    /\ batch_latents' = [batch_latents EXCEPT ![w] = <<>>]
    /\ idx' = [idx EXCEPT ![w] = @ + 1]
    /\ pc' = [pc EXCEPT ![w] = "loop"]
    /\ UNCHANGED << source, config, local_unprocessed_files, err, run,
                    te_calls, failed, encoded, cache_at_split, discovered, prev_run, resolved >>

\* the loop is over and batch_pixel_values is empty: process_directory returns
loop_end_empty(w) ==
    /\ w \in Active
    /\ pc[w] = "loop"
    /\ idx[w] > Len(local_unprocessed_files[w])
    /\ batch_pixel_values[w] = <<>>
    /\ pc' = [pc EXCEPT ![w] = "done"]
    /\ UNCHANGED << source, cache, config, local_unprocessed_files, idx, batch_state,
                    pending, err, run, te_calls, flush_sizes, failed,
                    encoded, first_stored, cache_at_split, discovered, prev_run, resolved >>

\* the loop is over with items left:
\* encode_image_batch(batch_pixel_values, files_to_process)
final_encode(w) ==
    /\ w \in Active
    /\ pc[w] = "loop"
    /\ idx[w] > Len(local_unprocessed_files[w])
    /\ batch_pixel_values[w] # <<>>
    /\ \E latents \in Samples(batch_pixel_values[w]) :
         LET r == encode_image_batch(latents, local_unprocessed_files[w])
         IN  /\ full_filenames' = [full_filenames EXCEPT ![w] = r.names]
             /\ batch_latents' = [batch_latents EXCEPT ![w] = r.latents]
             /\ pc' = [pc EXCEPT ![w] =
                         IF r.error = "none" THEN "final_write" ELSE "error"]
             /\ err' = [err EXCEPT ![w] = r.error]
    /\ te_calls' = [te_calls EXCEPT ![w] = @ + 1]
    /\ encoded' = [encoded EXCEPT ![w] = @ \cup Range(batch_pixel_values[w])]
    /\ UNCHANGED << source, cache, config, local_unprocessed_files, idx, batch_state,
                    run, flush_sizes, failed, first_stored, cache_at_split,
                    discovered, prev_run, resolved >>

\* the last write_batch of process_directory
final_write(w) ==
    /\ w \in Active
    /\ pc[w] = "final_write"
    /\ cache' = write_batch(cache, full_filenames[w], batch_latents[w])
    /\ first_stored' = NoteFirst(first_stored, full_filenames[w], batch_latents[w])
    /\ flush_sizes' = [flush_sizes EXCEPT ![w] = Append(@, Len(full_filenames[w]))]
    /\ full_filenames' = [full_filenames EXCEPT ![w] = <<>>]
    /\ batch_latents' = [batch_latents EXCEPT ![w] = <<>>]
    /\ pc' = [pc EXCEPT ![w] = "done"]
    /\ UNCHANGED << source, config, local_unprocessed_files, idx, batch_state, err,
                    run, te_calls, failed, encoded, cache_at_split,
                    discovered, prev_run, resolved >>

\* a caller invokes discover_unprocessed_files(directory) and keeps the result
discover_call(directory) ==
    /\ discovered' = [dir |-> directory,
                      result |-> discover_unprocessed_files(directory)]
    /\ UNCHANGED << source, cache, config, pc, local_unprocessed_files, idx,
                    batch_state, pending, err, run, te_calls, flush_sizes,
                    failed, encoded, first_stored, cache_at_split, prev_run, resolved >>

Next ==
    \E w \in Procs :
        \/ split_cache(w)
        \/ scan_directory(w)
        \/ loop_skip(w)
        \/ loop_decode(w)
        \/ loop_except(w)
        \/ loop_raise(w)
        \/ flush_encode(w)
        \/ flush_write(w)
        \/ loop_end_empty(w)
        \/ final_encode(w)
        \/ final_write(w)

Spec == Init /\ [][Next]_vars

\* the process of w is terminated from outside while in process_directory.
\* (A kill that no further run follows is a worker that takes no more steps.)
kill(w) ==
    /\ w \in Active
    /\ pc[w] \in {"loop", "encode", "write", "final_write"}
    \* the killed run is the last but one: exactly one run follows it
    /\ run[w] = MaxCalls - 1
    /\ nproc = 1
    /\ pc' = [pc EXCEPT ![w] = "killed"]
    /\ UNCHANGED << source, cache, config, local_unprocessed_files, idx, batch_state,
                    pending, err, run, te_calls, flush_sizes, failed, encoded,
                    first_stored, cache_at_split, discovered, prev_run, resolved >>

NextKill == Next \/ \E w \in Procs : kill(w)

(* the pipeline with runs that are killed and started again *)
\* a single process is killed and started again; no file is deleted
InitKill == Init /\ nproc = 1 /\ ~delete_problematic_images

SpecKill == InitKill /\ [][NextKill]_vars

\* write_batch has stored the first pair of the batch and not yet the others
\* (the backend stores the pairs one after the other)
write_batch_one(w) ==
    /\ w \in Active
    /\ pc[w] \in {"write", "final_write"}
    /\ Len(full_filenames[w]) >= 2
    /\ cache' = write_batch(cache, << Head(full_filenames[w]) >>,
                            << Head(batch_latents[w]) >>)
    /\ first_stored' = NoteFirst(first_stored, << Head(full_filenames[w]) >>,
                                 << Head(batch_latents[w]) >>)
    /\ full_filenames' = [full_filenames EXCEPT ![w] = Tail(@)]
    /\ batch_latents' = [batch_latents EXCEPT ![w] = Tail(@)]
    /\ UNCHANGED << source, config, pc, local_unprocessed_files, idx, batch_state,
                    err, run, te_calls, flush_sizes, failed, encoded,
                    cache_at_split, discovered, prev_run, resolved >>

NextSlowWrite == Next \/ \E w \in Procs : write_batch_one(w)

(* the pipeline over a backend whose write_batch is not atomic *)
SpecSlowWrite == Init /\ [][NextSlowWrite]_vars

\* process_directory is called once more on the same VAECache object, with
\* no split_cache_between_processes in between: self.local_unprocessed_files
\* is the list the earlier call appended to and shuffled
process_directory_again(w) ==
    /\ w \in Active
    /\ pc[w] \in {"done", "error"}
    /\ run[w] < MaxCalls
    /\ nproc = 1
    /\ Len(local_unprocessed_files[w]) + Cardinality(source) <= MaxLoad
    /\ pc' = [pc EXCEPT ![w] = "ready"]
    /\ err' = [err EXCEPT ![w] = "none"]
    /\ run' = [run EXCEPT ![w] = @ + 1]
    /\ te_calls' = [te_calls EXCEPT ![w] = 0]
    /\ flush_sizes' = [flush_sizes EXCEPT ![w] = <<>>]
    /\ failed' = [failed EXCEPT ![w] = {}]
    /\ encoded' = [encoded EXCEPT ![w] = {}]
    /\ cache_at_split' = [cache_at_split EXCEPT ![w] = cache]
    /\ prev_run' = [prev_run EXCEPT ![w] = [killed |-> FALSE, decoded |-> {}]]
    /\ UNCHANGED << source, cache, config, local_unprocessed_files, idx, batch_state,
                    pending, first_stored, discovered,
                    resolved >>

NextAgain == Next \/ \E w \in Procs : process_directory_again(w)

(* the pipeline with process_directory called again on the same object *)
SpecAgain == Init /\ [][NextAgain]_vars

\* a flush in which the first pair is stored before vae.encode is seen to fail
flush_encode_raises_after_write(w) ==
    /\ w \in Active
    /\ pc[w] = "encode"
    /\ \E latents \in Samples(batch_pixel_values[w]) :
         /\ cache' = write_batch(cache, << _generate_filename(current_batch_filepaths[w][1])[1] >>,
                                 << latents[1] >>)
         /\ first_stored' = NoteFirst(first_stored,
                                      << _generate_filename(current_batch_filepaths[w][1])[1] >>,
                                      << latents[1] >>)
    /\ pc' = [pc EXCEPT ![w] = "error"]
    /\ err' = [err EXCEPT ![w] = "EncodeError"]
    /\ te_calls' = [te_calls EXCEPT ![w] = @ + 1]
    /\ UNCHANGED << source, config, local_unprocessed_files, idx, batch_state,
                    pending, run, flush_sizes, failed, encoded, cache_at_split,
                    discovered, prev_run, resolved >>

\* the batch is full and vae.encode raises inside encode_image_batch: the
\* exception leaves process_directory, write_batch is not reached
flush_encode_raises(w) ==
    /\ w \in Active
    /\ pc[w] = "encode"
    /\ pc' = [pc EXCEPT ![w] = "error"]
    /\ err' = [err EXCEPT ![w] = "EncodeError"]
    /\ te_calls' = [te_calls EXCEPT ![w] = @ + 1]
    /\ UNCHANGED << source, cache, config, local_unprocessed_files, idx, batch_state,
                    pending, run, flush_sizes, failed, encoded, first_stored,
                    cache_at_split, discovered, prev_run, resolved >>

\* the loop is over with items left and vae.encode raises
final_encode_raises(w) ==
    /\ w \in Active
    /\ pc[w] = "loop"
    /\ idx[w] > Len(local_unprocessed_files[w])
    /\ batch_pixel_values[w] # <<>>
    /\ pc' = [pc EXCEPT ![w] = "error"]
    /\ err' = [err EXCEPT ![w] = "EncodeError"]
    /\ te_calls' = [te_calls EXCEPT ![w] = @ + 1]
    /\ UNCHANGED << source, cache, config, local_unprocessed_files, idx, batch_state,
                    pending, run, flush_sizes, failed, encoded, first_stored,
                    cache_at_split, discovered, prev_run, resolved >>

NextEncodeRaises ==
    \/ Next
    \/ \E w \in Procs : flush_encode_raises(w)
    \/ \E w \in Procs : final_encode_raises(w)

(* the pipeline with a Transform Engine that may fail *)
\* the except branch takes no part in a flush: no file is deleted here
InitEncodeRaises == Init /\ ~delete_problematic_images

SpecEncodeRaises == InitEncodeRaises /\ [][NextEncodeRaises]_vars

(* discover_unprocessed_files over storage states with any part cached *)
InitDiscover ==
    /\ source \in { S \in SUBSET (AllNames \cup {JpegName}) :
                       Cardinality(S) <= MaxFiles }
    /\ cache \in { [k \in CacheKeys |->
                      IF k \in C THEN [val |-> 1, src |-> Path(DataDir, k.stem, PngExt)]
                                 ELSE NoEntry] : C \in SUBSET CacheKeys }
    /\ write_batch_size = 1
    /\ delete_problematic_images = FALSE
    /\ list_flat \in BOOLEAN
    /\ nproc = 1
    /\ pc = [w \in Procs |-> "new"]
    /\ local_unprocessed_files = [w \in Procs |-> <<>>]
    /\ idx = [w \in Procs |-> 0]
    /\ current_batch_filepaths = [w \in Procs |-> <<>>]
    /\ batch_pixel_values = [w \in Procs |-> <<>>]
    /\ full_filenames = [w \in Procs |-> <<>>]
    /\ batch_latents = [w \in Procs |-> <<>>]
    /\ err = [w \in Procs |-> "none"]
    /\ run = [w \in Procs |-> 0]
    /\ te_calls = [w \in Procs |-> 0]
    /\ flush_sizes = [w \in Procs |-> <<>>]
    /\ failed = [w \in Procs |-> {}]
    /\ encoded = [w \in Procs |-> {}]
    /\ first_stored = cache
    /\ cache_at_split = [w \in Procs |-> cache]
    /\ discovered = [dir |-> "", result |-> {}]
    /\ prev_run = [w \in Procs |-> [killed |-> FALSE, decoded |-> {}]]
    /\ resolved = [p |-> <<>>, q |-> <<>>, rp |-> NotCalled, rq |-> NotCalled]

NextDiscover == \E directory \in {DataDir, cache_dir} : discover_call(directory)

SpecDiscover == InitDiscover /\ [][NextDiscover]_vars

\* a caller asks for the cache file name of the first path
resolve_p ==
    /\ resolved.rp = NotCalled
    /\ resolved' = [resolved EXCEPT !.rp = generate_filename(resolved.p)]
    /\ UNCHANGED << source, cache, config, pc, local_unprocessed_files, idx,
                    batch_state, pending, err, run, te_calls, flush_sizes,
                    failed, encoded, first_stored, cache_at_split, discovered,
                    prev_run >>

\* a caller asks for the cache file name of the second path
resolve_q ==
    /\ resolved.rq = NotCalled
    /\ resolved' = [resolved EXCEPT !.rq = generate_filename(resolved.q)]
    /\ UNCHANGED << source, cache, config, pc, local_unprocessed_files, idx,
                    batch_state, pending, err, run, te_calls, flush_sizes,
                    failed, encoded, first_stored, cache_at_split, discovered,
                    prev_run >>

InitFilename ==
    /\ source = {}
    /\ cache = [k \in CacheKeys |-> NoEntry]
    /\ write_batch_size = 1
    /\ delete_problematic_images = FALSE
    /\ list_flat = TRUE
    /\ nproc = 1
    /\ pc = [w \in Procs |-> "new"]
    /\ local_unprocessed_files = [w \in Procs |-> <<>>]
    /\ idx = [w \in Procs |-> 0]
    /\ current_batch_filepaths = [w \in Procs |-> <<>>]
    /\ batch_pixel_values = [w \in Procs |-> <<>>]
    /\ full_filenames = [w \in Procs |-> <<>>]
    /\ batch_latents = [w \in Procs |-> <<>>]
    /\ err = [w \in Procs |-> "none"]
    /\ run = [w \in Procs |-> 0]
    /\ te_calls = [w \in Procs |-> 0]
    /\ flush_sizes = [w \in Procs |-> <<>>]
    /\ failed = [w \in Procs |-> {}]
    /\ encoded = [w \in Procs |-> {}]
    /\ first_stored = cache
    /\ cache_at_split = [w \in Procs |-> cache]
    /\ discovered = [dir |-> "", result |-> {}]
    /\ prev_run = [w \in Procs |-> [killed |-> FALSE, decoded |-> {}]]
    /\ \E p, q \in PathStrings :
          resolved = [p |-> p, q |-> q, rp |-> NotCalled, rq |-> NotCalled]

NextFilename == resolve_p \/ resolve_q

(* _generate_filename applied to pairs of path strings *)
SpecFilename == InitFilename /\ [][NextFilename]_vars

TypeOK ==
    /\ source \subseteq AllNames \cup {JpegName}
    /\ \A k \in CacheKeys : cache[k].val \in 0..MaxVal
    /\ \A w \in Procs : pc[w] \in {"new", "ready", "loop", "encode", "write",
                                     "final_write", "done", "error", "killed"}

(* ------------------------- notions used by the claims -------------------- *)
Key(filepath) == _generate_filename(filepath)[1]

Ended(w) == pc[w] \in {"done", "error"}

\* the run of w has built its work list
Listed(w) == pc[w] \notin {"new", "ready"}

files_to_process(w) == local_unprocessed_files[w]

RECURSIVE SumSeq(_)
SumSeq(s) == IF s = <<>> THEN 0 ELSE Head(s) + SumSeq(Tail(s))

Ceil(k, b) == (k + b - 1) \div b

\* no two files of the data directory share a cache key
KeysDistinct == \A m, n \in source : Key(m) = Key(n) => m = n

\* reading a file of the data directory raises nothing but OSError, RuntimeError
OnlyHandledFaults == \A n \in source : DecodeOutcome(n) \in HandledErrors \cup {"ok"}

NoFaults == \A n \in source : DecodeOutcome(n) = "ok"

\* no file of the data directory fails to decode and none has failed so far
NoFailures == NoFaults /\ \A w \in Procs : failed[w] = {}

\* the source items (files the image listing returns and the suffix test
\* accepts) without a cache entry
Backlog ==
    { n \in source :
        MatchesImagePattern(n) /\ EndsWithImageSuffix(n) /\ ~exists(Key(n)) }

(* ------------------------------- claims ---------------------------------- *)

\* C1 (as claimed): a single worker's run in which only handled decode
\* failures occur completes, and every item of its work list then has a cache
\* entry at its key or is a recorded failure; from an empty cache with K
\* items of distinct keys, f of them failing, exactly K - f entries exist.
C1_Claim ==
    (nproc = 1 /\ Ended(1) /\ run[1] = 1 /\ OnlyHandledFaults)
    => /\ pc[1] = "done"
       /\ \A i \in 1..Len(files_to_process(1)) :
             \/ exists(Key(files_to_process(1)[i]))
             \/ files_to_process(1)[i] \in failed[1]
       /\ KeysDistinct =>
             Cardinality({ k \in CacheKeys : cache[k] # NoEntry })
               = Len(files_to_process(1)) - Cardinality(failed[1])

\* C2 (as claimed): for a single worker over K uncached items of distinct
\* keys, the pairs passed to write_batch number K minus the items of the
\* failure branch, and with no failure the write_batch calls number ceil(K/B).
C2_Claim ==
    (nproc = 1 /\ Ended(1) /\ run[1] = 1 /\ OnlyHandledFaults /\ KeysDistinct)
    => /\ SumSeq(flush_sizes[1])
            = Len(files_to_process(1)) - Cardinality(failed[1])
       /\ failed[1] = {} =>
            Len(flush_sizes[1]) = Ceil(Len(files_to_process(1)), write_batch_size)

\* C3 (as claimed): a loop that ends with r < write_batch_size items in the
\* batch is followed by one more write_batch of exactly those r items, each
\* stored under its own cache key.
C3_Claim ==
    \A w \in Active :
       (Ended(w) /\ idx[w] > Len(files_to_process(w)) /\ batch_pixel_values[w] # <<>>)
       => /\ pc[w] = "done"
          /\ flush_sizes[w] # <<>>
          /\ flush_sizes[w][Len(flush_sizes[w])] = Len(batch_pixel_values[w])
          /\ \A i \in 1..Len(batch_pixel_values[w]) :
                exists(Key(batch_pixel_values[w][i]))

\* C4 (as claimed): the second of two successive pipeline runs of a single
\* worker over the same source set (no file fails, none is deleted) makes no
\* Transform Engine call and leaves the cache as the first run left it.
C4_Claim ==
    (nproc = 1 /\ run[1] = 2 /\ NoFaults /\ KeysDistinct /\ ~delete_problematic_images)
    => te_calls[1] = 0 /\ cache = cache_at_split[1]

\* C5 (as claimed): from an empty cache and with no decode failure, once
\* every one of N >= 2 workers has run the pipeline to its end, every listed
\* source item has a cache entry and no worker has ended in an error.
C5_Claim ==
    (nproc >= 2 /\ NoFailures /\ KeysDistinct
       /\ \A w \in Active : Ended(w) /\ run[w] = 1)
    => /\ \A w \in Active : pc[w] = "done"
       /\ \A n \in source : MatchesImagePattern(n) => exists(Key(n))

\* C6 (as claimed): the work lists two different workers iterate over have
\* no item in common.
C6_Claim ==
    \A v, w \in Active :
       (v # w /\ Listed(v) /\ Listed(w) /\ run[v] = 1 /\ run[w] = 1)
       => Range(files_to_process(v)) \cap Range(files_to_process(w)) = {}

\* C7 (as claimed): once every worker has called
\* split_cache_between_processes, their local_unprocessed_files are pairwise
\* disjoint and together are the backlog.
C7_Claim ==
    (\A w \in Active : pc[w] = "ready" /\ run[w] = 1)
    => /\ \A v, w \in Active : v # w =>
             Range(local_unprocessed_files[v]) \cap Range(local_unprocessed_files[w]) = {}
       /\ UNION { { basename(f) : f \in Range(local_unprocessed_files[w]) }
                  : w \in Active } = Backlog

\* C8 (as claimed): when two workers have both encoded the same identity and
\* both runs are over, the value stored under its key is the one stored there
\* first, and neither worker has ended in an error.
C8_Claim ==
    \A v, w \in Active :
       (v # w /\ Ended(v) /\ Ended(w)) =>
          \A f \in encoded[v] \cap encoded[w] :
             /\ cache[Key(f)] = first_stored[Key(f)]
             /\ pc[v] = "done" /\ pc[w] = "done"

\* C9 (as claimed): discover_unprocessed_files(directory) returns exactly
\* the source items under directory that have no cache entry.
C9_Claim ==
    discovered.dir = DataDir
    => { basename(f) : f \in discovered.result } = Backlog

\* the pass of w through the loop body that this step takes, if any
Pass(w) ==
    /\ pc[w] = "loop"
    /\ idx[w] <= Len(files_to_process(w))
    /\ << pc[w], idx[w], failed[w], batch_pixel_values[w] >>
         # << pc[w], idx[w], failed[w], batch_pixel_values[w] >>'

Raised(w) ==
    IF ~exists(Key(files_to_process(w)[idx[w]]))
    THEN ReadOutcome(files_to_process(w)[idx[w]]) ELSE "ok"

Continues(w) ==
    /\ batch_pixel_values'[w] = batch_pixel_values[w]
    /\ current_batch_filepaths'[w] = current_batch_filepaths[w]
    /\ idx'[w] = idx[w] + 1
    /\ pc'[w] = "loop"
    /\ err'[w] = "none"

\* C10 (as claimed): whatever the class of the error the read/decode step
\* raises for an item, the item does not join the batch, the loop goes on to
\* the next item and the error does not leave process_directory.
C10_Claim ==
    [][\A w \in Active : (Pass(w) /\ Raised(w) # "ok") => Continues(w)]_vars

\* C10 (amended): when the read/decode step raises an OSError or a
\* RuntimeError, the item does not join the batch, the loop goes on to the
\* next item and the error does not leave process_directory.
C10_Handled ==
    [][\A w \in Active :
         (Pass(w) /\ Raised(w) \in {"OSError", "RuntimeError"}) => Continues(w)]_vars

\* C10 (witness): a run that met both an OSError and a RuntimeError, went on
\* past both items and reached its end
C10_Witness ==
    \E w \in Active :
       /\ pc[w] = "done"
       /\ \E f, g \in failed[w] :
             DecodeOutcome(f) = "OSError" /\ DecodeOutcome(g) = "RuntimeError"

\* the item the loop of w is at
Current(w) == files_to_process(w)[idx[w]]

\* C11: a step removes a file of the data directory exactly when it is the
\* pass of a worker whose read/decode step raised a handled error for that
\* file while delete_problematic_images is set; no step removes any other
\* file, and no step removes a cache entry.
C11_Frame ==
    [][ /\ source' \subseteq source
        /\ \A n \in source \ source' :
              /\ delete_problematic_images
              /\ \E w \in Active :
                    /\ Pass(w)
                    /\ basename(Current(w)) = n
                    /\ Raised(w) \in {"OSError", "RuntimeError"}
        /\ \A w \in Active :
              (Pass(w) /\ Raised(w) \in {"OSError", "RuntimeError"}
                 /\ delete_problematic_images)
              => basename(Current(w)) \notin source'
        /\ \A k \in CacheKeys : cache[k] # NoEntry => cache'[k] # NoEntry ]_vars

\* C11 (witness): a failed file has been deleted while another file and a
\* cache entry are still there
C11_Witness ==
    /\ delete_problematic_images
    /\ \E w \in Active : \E f \in failed[w] : basename(f) \notin source
    /\ source # {}
    /\ \E k \in CacheKeys : cache[k] # NoEntry

\* C12: when a single worker's run was killed inside process_directory and
\* the pipeline runs again, the items the killed run had decoded that the new
\* run passes to the Transform Engine are at most write_batch_size, and the
\* new run passes no item to it whose cache entry existed at the kill.
C12_Redo ==
    (nproc = 1 /\ prev_run[1].killed)
    => /\ Cardinality(prev_run[1].decoded \cap encoded[1]) <= write_batch_size
       /\ \A f \in encoded[1] : cache_at_split[1][Key(f)] = NoEntry

\* C12 (witness): the killed run had written an entry and decoded a further
\* item, and the new run has passed that item to the Transform Engine
C12_Witness ==
    /\ nproc = 1 /\ prev_run[1].killed
    /\ \E k \in CacheKeys : cache_at_split[1][k] # NoEntry
    /\ prev_run[1].decoded \cap encoded[1] # {}

\* C13: the key list and the embedding list handed to write_batch have the
\* same length and the i-th key is the cache key of the item the i-th
\* embedding was computed from (or loaded for); every stored entry sits under
\* the key of the item it was computed from.
C13_Aligned ==
    /\ \A w \in Active :
          pc[w] \in {"write", "final_write"} =>
             /\ Len(full_filenames[w]) = Len(batch_latents[w])
             /\ Len(full_filenames[w]) = Len(batch_pixel_values[w])
             /\ \A i \in 1..Len(full_filenames[w]) :
                   /\ full_filenames[w][i] = Key(batch_latents[w][i].src)
                   /\ full_filenames[w][i] = Key(batch_pixel_values[w][i])
    /\ \A k \in CacheKeys : cache[k] # NoEntry => Key(cache[k].src) = k

\* C13 (witness): a write_batch of two pairs is about to happen, one of them
\* loaded from the cache
C13_Witness ==
    \E w \in Active :
       /\ pc[w] = "write"
       /\ Len(full_filenames[w]) >= 2
       /\ \E i \in 1..Len(batch_latents[w]) : batch_latents[w][i].loaded
       /\ \E k \in CacheKeys : cache[k] # NoEntry

\* the Transform Engine is called by w in this step
TECall(w) == te_calls'[w] = te_calls[w] + 1

\* some item occurs twice in the sequence
HasDuplicate(s) == \E i, j \in 1..Len(s) : i # j /\ s[i] = s[j]

EncodeRaises(w) == TECall(w) /\ pc'[w] = "error"

\* C15: a flush whose encode_image_batch call raises stores nothing and
\* changes no stored entry; an entry exists only for an embedding that was
\* computed and handed to write_batch.
C15_NoPartialWrite ==
    /\ [][ \A w \in Active : EncodeRaises(w) => cache' = cache ]_vars
    /\ [](\A k \in CacheKeys :
            cache[k] # NoEntry =>
               /\ first_stored[k] # NoEntry
               /\ cache[k].val \in 1..MaxVal
               /\ Key(cache[k].src) = k)

\* C15 (witness): vae.encode failed in a flush after an earlier flush of the
\* run had stored an entry; the items of the failed batch have no entry
C15_Witness ==
    \E w \in Active :
       /\ pc[w] = "error" /\ err[w] = "EncodeError"
       /\ batch_pixel_values[w] # <<>>
       /\ flush_sizes[w] # <<>>
       /\ \E k \in CacheKeys : cache[k] # NoEntry
       /\ \A i \in 1..Len(batch_pixel_values[w]) :
             cache[Key(batch_pixel_values[w][i])] = NoEntry

\* the ways to read p as directory, stem and last extension: the directory
\* is everything up to the last "/", the extension starts at the last dot of
\* the rest provided something other than dots precedes that dot
Parts(p) ==
    { [dir |-> SubSeq(p, 1, c[1]), stem |-> SubSeq(p, c[1] + 1, c[2]),
       ext |-> SubSeq(p, c[2] + 1, Len(p))] :
      c \in { x \in (0..Len(p)) \X (0..Len(p)) :
                /\ x[1] <= x[2]
                /\ x[1] = 0 \/ p[x[1]] = "/"
                /\ \A i \in (x[1] + 1)..Len(p) : p[i] # "/"
                /\ IF x[2] = Len(p)
                   THEN \A k \in (x[1] + 1)..x[2] :
                           p[k] = "." => \A m \in (x[1] + 1)..(k - 1) : p[m] = "."
                   ELSE /\ p[x[2] + 1] = "."
                        /\ \A i \in (x[2] + 2)..Len(p) : p[i] # "."
                        /\ \E k \in (x[1] + 1)..x[2] : p[k] # "." } }

\* what the description of _generate_filename asks of a result r for path p
Described(p, r) ==
    /\ Parts(p) # {}
    /\ \A t \in Parts(p) :
          /\ r[2] = t.stem \o PtSuffix
          /\ r[1] = os_path_join(cache_dir_str, r[2])

\* C16: _generate_filename(p) is (cache_dir joined with b, b), b being the
\* base name of p without its directory and with ".pt" in place of its last
\* extension; two paths that differ only in directory or extension get the
\* same result.
C16_Filename ==
    /\ resolved.rp # NotCalled => Described(resolved.p, resolved.rp)
    /\ resolved.rq # NotCalled => Described(resolved.q, resolved.rq)
    /\ (/\ resolved.rp # NotCalled /\ resolved.rq # NotCalled
        /\ \E t \in Parts(resolved.p), u \in Parts(resolved.q) : t.stem = u.stem)
       => resolved.rp = resolved.rq

\* C16 (witness): both paths are resolved; they have the same stem, one has
\* a directory and an extension, the other has a different extension
C16_Witness ==
    /\ resolved.rp # NotCalled /\ resolved.rq # NotCalled
    /\ \E t \in Parts(resolved.p), u \in Parts(resolved.q) :
          /\ t.stem = u.stem
          /\ t.dir # <<>> /\ t.dir # u.dir
          /\ t.ext # <<>> /\ t.ext # u.ext
    /\ resolved.rp = resolved.rq

\* write_batch is called by w in this step
WriteCall(w) ==
    /\ pc[w] \in {"write", "final_write"}
    /\ pc'[w] # "killed"
    /\ pc'[w] # pc[w] \/ full_filenames'[w] # full_filenames[w]

\* C17 (as claimed): for a batch item whose entry exists when
\* encode_image_batch checks, the embedding returned is the stored value,
\* and the write_batch that follows leaves that entry as it was.
C17_Claim ==
    [][ \A w \in Active :
          /\ (TECall(w) /\ pc'[w] \in {"write", "final_write"}) =>
                \A i \in 1..Len(full_filenames'[w]) :
                   cache[full_filenames'[w][i]] # NoEntry =>
                      /\ batch_latents'[w][i].val = cache[full_filenames'[w][i]].val
                      /\ batch_latents'[w][i].src = cache[full_filenames'[w][i]].src
          /\ WriteCall(w) =>
                \A i \in 1..Len(full_filenames[w]) :
                   batch_latents[w][i].loaded =>
                      cache'[full_filenames[w][i]] = cache[full_filenames[w][i]] ]_vars

\* C18 (as claimed): for every listed image the membership test of the scan
\* (name without extension in existing_pt_files) and data_backend.exists on
\* the cache key of the item give the same answer.
C18_Claim ==
    \A g \in list_files(DataDir, TRUE) : \A file \in g[2] :
       (splitext0(file) \in existing_pt_files) <=> exists(Key(join(g[1], file)))

\* C19: the two batch lists of process_directory go in step and never hold
\* more than write_batch_size items; a Transform Engine call for a full batch
\* gets exactly write_batch_size items and is followed by one write_batch,
\* after which both lists are empty.
C19_Batch ==
    /\ [](\A w \in Active :
            /\ Len(current_batch_filepaths[w]) = Len(batch_pixel_values[w])
            /\ \A i \in 1..Len(batch_pixel_values[w]) :
                  current_batch_filepaths[w][i] = batch_pixel_values[w][i]
            /\ Len(batch_pixel_values[w]) <= write_batch_size
            /\ pc[w] = "loop" => Len(batch_pixel_values[w]) < write_batch_size
            /\ pc[w] \in {"encode", "write"}
                  => Len(batch_pixel_values[w]) = write_batch_size)
    /\ [][ \A w \in Active :
             /\ (pc[w] = "encode" /\ TECall(w)) =>
                   /\ Len(batch_pixel_values[w]) = write_batch_size
                   /\ pc'[w] = "write"
                   /\ Len(full_filenames'[w]) = write_batch_size
             /\ (pc[w] = "write" /\ pc'[w] # "write") =>
                   /\ flush_sizes'[w] = Append(flush_sizes[w], write_batch_size)
                   /\ current_batch_filepaths'[w] = <<>>
                   /\ batch_pixel_values'[w] = <<>>
                   /\ pc'[w] = "loop" ]_vars

\* C19 (witness): after a full batch of two or more was flushed, the lists
\* hold the next item
C19_Witness ==
    \E w \in Active :
       /\ pc[w] = "loop"
       /\ flush_sizes[w] # <<>> /\ flush_sizes[w][1] >= 2
       /\ Len(batch_pixel_values[w]) >= 1

====
